---- MODULE Spec2Model ----
(***************************************************************************)
(* Model of scripts/functional_analysis.py: the pipeline                   *)
(*   main -> leer_genes -> validar_y_convertir_genes -> analizar_genes     *)
(*        -> exportar_resultados                                           *)
(* The two external services (MyGene.info querymany, g:Profiler profile)   *)
(* are the environment: each call either raises or returns a value drawn   *)
(* from a bounded set.                                                     *)
(***************************************************************************)
EXTENDS Integers, Sequences, FiniteSets, TLC

(* ------------------------------ bounds --------------------------------- *)
\* longest identifier list given with -g or read from the input file
MaxGenes == 2
\* most rows in a result set returned by the enrichment service
MaxRows == 2

(* --------------------------- value universes --------------------------- *)
\* identifiers the user may give
GeneIds == {"ND1", "TP53"}
\* canonical symbols the lookup service may return
Symbols == {"MT-ND1", "TP53"}
\* values of the -org option
Organisms == {"hsapiens", "MMusculus", "drerio"}
\* absence of a key in a result dict of the lookup service
Absent == "<absent>"
\* value of args.input when -g was used instead of -i
None == "<None>"

\* one element of results['out']: 'notfound' key (absent or True) and
\* 'symbol' key (absent or a symbol)
NotFoundHit == [notfound |-> "True", symbol |-> Absent]
AmbiguousHit == [notfound |-> Absent, symbol |-> Absent]
SymbolHit(s) == [notfound |-> Absent, symbol |-> s]
Hits == {NotFoundHit, AmbiguousHit} \cup {SymbolHit(s) : s \in Symbols}

\* all sequences over S of length lo..hi
SeqsBetween(S, lo, hi) == UNION {[1..n -> S] : n \in lo..hi}

\* results['out'] for a query of n terms: one entry per hit, in any number
\* and order; zip() never reads an entry beyond the n-th, so the responses
\* drawn stop at n entries
Responses(n) == SeqsBetween(Hits, 0, n)

\* rows of the enrichment result set (source database, term id)
Rows == [source : {"GO:BP", "KEGG", "REAC"}, native : {"t1"}]
ResultSets == SeqsBetween(Rows, 0, MaxRows)
\* what profile returns: None, or a DataFrame with these rows
ProfileReplies ==
  {[is_none |-> TRUE, rows |-> <<>>]}
    \cup [is_none : {FALSE}, rows : ResultSets]

Min(a, b) == IF a < b THEN a ELSE b
Range(s) == {s[i] : i \in 1..Len(s)}

(* ------------------------------- state --------------------------------- *)
VARIABLES
  pc,                 \* position in main
  args,               \* parsed command line
  genes_input,        \* main: genes_input
  results,            \* validar: results['out'] of the first query
  genes_validos,      \* validar: genes_validos
  mapping,            \* validar: mapping (insertion-ordered dict)
  no_encontrados,     \* validar: no_encontrados
  advertencias,       \* validar: advertencias
  genes_a_reintentar, \* validar: genes_a_reintentar
  variantes_mt,       \* validar: variantes_mt
  results_mt,         \* validar: results_mt['out']
  validacion,         \* main: validacion (the dict validar returns)
  resultados,         \* main: resultados (rows of the DataFrame)
  files,              \* output directory: file name -> content
  exit_status,        \* status passed to sys.exit, or -1 while running
  reported,           \* [ERROR] conditions printed
  mygene_calls,       \* querymany calls issued
  gprofiler_calls,    \* profile calls issued
  returned_symbols,   \* symbols the lookup service has returned so far
  profile_returned    \* rows the enrichment service returned

vars == <<pc, args, genes_input, results, genes_validos, mapping,
          no_encontrados, advertencias, genes_a_reintentar, variantes_mt,
          results_mt, validacion, resultados, files, exit_status, reported,
          mygene_calls, gprofiler_calls, returned_symbols,
          profile_returned>>

locals == <<results, genes_validos, mapping, no_encontrados, advertencias,
            genes_a_reintentar, variantes_mt, results_mt>>

(* ------------------------ insertion-ordered dict ----------------------- *)
\* a Python dict as a sequence of <<key, value>> pairs in insertion order
Keys(d) == {d[i][1] : i \in 1..Len(d)}
Get(d, k) == LET i == CHOOSE j \in 1..Len(d) : d[j][1] = k IN d[i][2]
\* d[k] = v: an existing key keeps its position
Put(d, k, v) ==
  IF k \in Keys(d)
  THEN [i \in 1..Len(d) |-> IF d[i][1] = k THEN <<k, v>> ELSE d[i]]
  ELSE Append(d, <<k, v>>)

(* ------------------------------- main ---------------------------------- *)
\* argparse: exactly one of -i / -g (nargs='+'), -o, -org
ArgSets ==
  [input : {"missing.txt", "unreadable.txt", "genes.txt"}, genes : {<<>>},
   organism : Organisms]
  \cup
  [input : {None}, genes : SeqsBetween(GeneIds, 1, MaxGenes),
   organism : Organisms]

NoValidacion == [validos |-> <<>>, mapping |-> <<>>, no_encontrados |-> <<>>,
                 advertencias |-> <<>>]

Init ==
  /\ pc = "obtener"
  /\ args \in ArgSets
  /\ genes_input = <<>>
  /\ results = <<>>
  /\ genes_validos = <<>>
  /\ mapping = <<>>
  /\ no_encontrados = <<>>
  /\ advertencias = <<>>
  /\ genes_a_reintentar = <<>>
  /\ variantes_mt = <<>>
  /\ results_mt = <<>>
  /\ validacion = NoValidacion
  /\ resultados = <<>>
  /\ files = <<>>
  /\ exit_status = -1
  /\ reported = <<>>
  /\ mygene_calls = <<>>
  /\ gprofiler_calls = <<>>
  /\ returned_symbols = {}
  /\ profile_returned = <<>>

\* sys.exit(1) after printing an [ERROR] line
Exit1(msg) ==
  /\ pc' = "exit"
  /\ exit_status' = 1
  /\ reported' = Append(reported, msg)

\* main, -g given: genes_input = args.genes
GenesDeArgumentos ==
  /\ pc = "obtener"
  /\ args.input = None
  /\ genes_input' = args.genes
  /\ pc' = "validar"
  /\ UNCHANGED <<args, locals, validacion, resultados, files, exit_status,
                 reported, mygene_calls, gprofiler_calls, returned_symbols,
                 profile_returned>>

\* leer_genes: the file is read and split into stripped non-empty tokens
LeerGenes ==
  /\ pc = "obtener"
  /\ args.input = "genes.txt"
  /\ \E genes \in SeqsBetween(GeneIds, 0, MaxGenes) : genes_input' = genes
  /\ pc' = "validar"
  /\ UNCHANGED <<args, locals, validacion, resultados, files, exit_status,
                 reported, mygene_calls, gprofiler_calls, returned_symbols,
                 profile_returned>>

\* variant: a missing file reads as an empty list
LeerGenesNoEncontrado_Sigue ==
  /\ pc = "obtener"
  /\ args.input = "missing.txt"
  /\ genes_input' = <<>>
  /\ pc' = "validar"
  /\ UNCHANGED <<args, locals, validacion, resultados, files, exit_status,
                 reported, mygene_calls, gprofiler_calls, returned_symbols,
                 profile_returned>>

\* leer_genes: open() raises FileNotFoundError
LeerGenesNoEncontrado ==
  /\ pc = "obtener"
  /\ args.input = "missing.txt"
  /\ Exit1("Archivo no encontrado")
  /\ UNCHANGED <<args, genes_input, locals, validacion, resultados, files,
                 mygene_calls, gprofiler_calls, returned_symbols,
                 profile_returned>>

\* leer_genes: any other exception while reading
LeerGenesError ==
  /\ pc = "obtener"
  /\ args.input = "unreadable.txt"
  /\ Exit1("Error al leer archivo")
  /\ UNCHANGED <<args, genes_input, locals, validacion, resultados, files,
                 mygene_calls, gprofiler_calls, returned_symbols,
                 profile_returned>>

(* ---------------------- validar_y_convertir_genes ---------------------- *)
\* str.lower() on the values the -org option takes here
Lower(s) == IF s = "MMusculus" THEN "mmusculus" ELSE s

\* species_map: organism code -> species name of the lookup service
species_map ==
  [c \in {"human", "mouse", "rat", "hsapiens", "mmusculus", "rnorvegicus"} |->
     CASE c = "human" -> "human"
       [] c = "mouse" -> "mouse"
       [] c = "rat" -> "rat"
       [] c = "hsapiens" -> "human"
       [] c = "mmusculus" -> "mouse"
       [] c = "rnorvegicus" -> "rat"]

\* species_map.get(organismo.lower(), 'human')
Species(organismo) ==
  IF Lower(organismo) \in DOMAIN species_map
  THEN species_map[Lower(organismo)]
  ELSE "human"

\* 'notfound' in result and result['notfound']
IsNotFound(result) == result.notfound # Absent /\ result.notfound = "True"
\* 'symbol' in result
HasSymbol(result) == result.symbol # Absent

\* symbols present in a response
SymbolsIn(out) ==
  {out[i].symbol : i \in {j \in 1..Len(out) : HasSymbol(out[j])}}

\* f"Gen no encontrado: '{gene}'"
Advertencia(gene) == [tipo |-> "Gen no encontrado", gen |-> gene]
\* 'No se pudo validar genes (sin conexion)'
SinConexion ==
  [tipo |-> "No se pudo validar genes (sin conexion)", gen |-> Absent]

\* the loop over zip(genes, results['out']), from pair i on; st holds
\* genes_validos, mapping and genes_a_reintentar
RECURSIVE PrimeraPasada(_, _, _, _)
PrimeraPasada(genes, out, i, st) ==
  IF i > Min(Len(genes), Len(out)) THEN st
  ELSE LET gene_input == genes[i]
           result == out[i]
       IN IF IsNotFound(result)
          THEN PrimeraPasada(genes, out, i + 1,
                 [st EXCEPT !.reintentar = Append(@, gene_input)])
          ELSE IF HasSymbol(result)
          THEN PrimeraPasada(genes, out, i + 1,
                 [st EXCEPT !.validos = Append(@, result.symbol),
                            !.mapping = Put(@, gene_input, result.symbol)])
          ELSE PrimeraPasada(genes, out, i + 1,
                 [st EXCEPT !.reintentar = Append(@, gene_input)])

\* variant: the retry repeats the identifier without the prefix
VarianteMT_SinPrefijo(gene) == gene

\* f"MT-{gene}"
VarianteMT(gene) == "MT-" \o gene
\* [f"MT-{gene}" for gene in genes_a_reintentar]
VariantesMT(genes) == [i \in 1..Len(genes) |-> VarianteMT(genes[i])]

\* the loop over zip(genes_a_reintentar, variantes_mt, results_mt['out']);
\* st holds genes_validos, mapping, no_encontrados and advertencias
RECURSIVE SegundaPasada(_, _, _, _)
SegundaPasada(reintentar, out, i, st) ==
  IF i > Min(Len(reintentar), Len(out)) THEN st
  ELSE LET gene_original == reintentar[i]
           result_mt == out[i]
       IN IF result_mt.notfound = Absent /\ HasSymbol(result_mt)
          THEN SegundaPasada(reintentar, out, i + 1,
                 [st EXCEPT
                    !.validos = Append(@, result_mt.symbol),
                    !.mapping = Put(@, gene_original, result_mt.symbol)])
          ELSE SegundaPasada(reintentar, out, i + 1,
                 [st EXCEPT
                    !.no_encontrados = Append(@, gene_original),
                    !.advertencias = Append(@, Advertencia(gene_original))])

\* {g: g for g in genes}, from element i on
RECURSIVE Identidad(_, _, _)
Identidad(genes, i, d) ==
  IF i > Len(genes) THEN d
  ELSE Identidad(genes, i + 1, Put(d, genes[i], genes[i]))

\* mg.querymany(terms, ..., species=species, returnall=True)
\* raised: whether this call ended with an exception
QueryMany(terms, raised) ==
  mygene_calls' = Append(mygene_calls,
                    [terms |-> terms, species |-> Species(args.organism),
                     raised |-> raised])

\* first querymany returns: results are sorted into genes_validos / mapping
\* and genes_a_reintentar; the MT- variants are built when a retry is due
PrimeraConsulta ==
  /\ pc = "validar"
  /\ QueryMany(genes_input, FALSE)
  /\ \E out \in Responses(Len(genes_input)) :
       LET st == PrimeraPasada(genes_input, out, 1,
                   [validos |-> <<>>, mapping |-> <<>>, reintentar |-> <<>>])
       IN /\ results' = out
          /\ returned_symbols' = returned_symbols \cup SymbolsIn(out)
          /\ genes_validos' = st.validos
          /\ mapping' = st.mapping
          /\ genes_a_reintentar' = st.reintentar
          /\ IF st.reintentar # <<>>
             THEN /\ variantes_mt' = VariantesMT(st.reintentar)
                  /\ pc' = "reintentar"
             ELSE /\ variantes_mt' = <<>>
                  /\ pc' = "resumen"
  /\ UNCHANGED <<args, genes_input, no_encontrados, advertencias, results_mt,
                 validacion, resultados, files, exit_status, reported,
                 gprofiler_calls, profile_returned>>

\* variant: an unreachable lookup service ends the run
PrimeraConsultaFalla_Termina ==
  /\ pc = "validar"
  /\ QueryMany(genes_input, TRUE)
  /\ Exit1("Error al conectar con MyGene.info")
  /\ UNCHANGED <<args, genes_input, locals, validacion, resultados, files,
                 gprofiler_calls, returned_symbols, profile_returned>>

\* first querymany raises: validation is skipped and the input is returned
\* as it came
PrimeraConsultaFalla ==
  /\ pc = "validar"
  /\ QueryMany(genes_input, TRUE)
  /\ reported' = Append(reported, "Error al conectar con MyGene.info")
  /\ validacion' = [validos |-> genes_input,
                    mapping |-> Identidad(genes_input, 1, <<>>),
                    no_encontrados |-> <<>>,
                    advertencias |-> <<SinConexion>>]
  /\ pc' = "analizar"
  /\ UNCHANGED <<args, genes_input, locals, resultados, files, exit_status,
                 gprofiler_calls, returned_symbols, profile_returned>>

\* second querymany (MT- variants) returns: each retried identifier is
\* either mapped from its original form or recorded as not found
SegundaConsulta ==
  /\ pc = "reintentar"
  /\ QueryMany(variantes_mt, FALSE)
  /\ \E out \in Responses(Len(variantes_mt)) :
       LET st == SegundaPasada(genes_a_reintentar, out, 1,
                   [validos |-> genes_validos, mapping |-> mapping,
                    no_encontrados |-> no_encontrados,
                    advertencias |-> advertencias])
       IN /\ results_mt' = out
          /\ returned_symbols' = returned_symbols \cup SymbolsIn(out)
          /\ genes_validos' = st.validos
          /\ mapping' = st.mapping
          /\ no_encontrados' = st.no_encontrados
          /\ advertencias' = st.advertencias
  /\ pc' = "resumen"
  /\ UNCHANGED <<args, genes_input, results, genes_a_reintentar, variantes_mt,
                 validacion, resultados, files, exit_status, reported,
                 gprofiler_calls, profile_returned>>

\* variant: a failed retry aborts the validation
SegundaConsultaFalla_Aborta ==
  /\ pc = "reintentar"
  /\ QueryMany(variantes_mt, TRUE)
  /\ Exit1("Error al conectar con MyGene.info")
  /\ UNCHANGED <<args, genes_input, locals, validacion, resultados, files,
                 gprofiler_calls, returned_symbols, profile_returned>>

\* second querymany raises: every retried identifier is recorded as not
\* found
SegundaConsultaFalla ==
  /\ pc = "reintentar"
  /\ QueryMany(variantes_mt, TRUE)
  /\ no_encontrados' = no_encontrados \o genes_a_reintentar
  /\ advertencias' = advertencias \o
       [i \in 1..Len(genes_a_reintentar) |-> Advertencia(genes_a_reintentar[i])]
  /\ pc' = "resumen"
  /\ UNCHANGED <<args, genes_input, results, genes_validos, mapping,
                 genes_a_reintentar, variantes_mt, results_mt, validacion,
                 resultados, files, exit_status, reported, gprofiler_calls,
                 returned_symbols, profile_returned>>

\* the locals of validar_y_convertir_genes after it has returned or exited
LocalsFuera ==
  /\ results' = <<>>
  /\ genes_validos' = <<>>
  /\ mapping' = <<>>
  /\ no_encontrados' = <<>>
  /\ advertencias' = <<>>
  /\ genes_a_reintentar' = <<>>
  /\ variantes_mt' = <<>>
  /\ results_mt' = <<>>

\* summary: at least one valid gene, the dict is returned to main
Resumen ==
  /\ pc = "resumen"
  /\ genes_validos # <<>>
  /\ validacion' = [validos |-> genes_validos,
                    mapping |-> mapping,
                    no_encontrados |-> no_encontrados,
                    advertencias |-> advertencias]
  /\ LocalsFuera
  /\ pc' = "analizar"
  /\ UNCHANGED <<args, genes_input, resultados, files, exit_status, reported,
                 mygene_calls, gprofiler_calls, returned_symbols,
                 profile_returned>>

\* variant: the summary returns the dict even without a valid gene
ResumenSinValidos_Continua ==
  /\ pc = "resumen"
  /\ genes_validos = <<>>
  /\ validacion' = [validos |-> genes_validos,
                    mapping |-> mapping,
                    no_encontrados |-> no_encontrados,
                    advertencias |-> advertencias]
  /\ LocalsFuera
  /\ pc' = "analizar"
  /\ UNCHANGED <<args, genes_input, resultados, files, exit_status, reported,
                 mygene_calls, gprofiler_calls, returned_symbols,
                 profile_returned>>

\* summary: no valid gene, sys.exit(1)
ResumenSinValidos ==
  /\ pc = "resumen"
  /\ genes_validos = <<>>
  /\ Exit1("No se encontro ningun gen valido")
  /\ LocalsFuera
  /\ UNCHANGED <<args, genes_input, validacion, resultados, files,
                 mygene_calls, gprofiler_calls, returned_symbols,
                 profile_returned>>

(* ---------------------------- analizar_genes --------------------------- *)
\* gp.profile(organism=organismo, query=genes, sources=[...], ...)
Profile ==
  gprofiler_calls' = Append(gprofiler_calls,
                       [organism |-> args.organism,
                        query |-> validacion.validos,
                        sources |-> <<"GO:BP", "KEGG", "REAC">>])

\* profile returns a DataFrame or None: a non-empty DataFrame is returned
\* as it came, anything else is replaced by a fresh empty DataFrame
Analizar ==
  /\ pc = "analizar"
  /\ Profile
  /\ \E reply \in ProfileReplies :
       /\ profile_returned' = reply.rows
       /\ resultados' = IF ~reply.is_none /\ reply.rows # <<>>
                        THEN reply.rows ELSE <<>>
  /\ pc' = "exportar"
  /\ UNCHANGED <<args, genes_input, locals, validacion, files, exit_status,
                 reported, mygene_calls, returned_symbols>>

\* profile raises: the error is printed and the result set is empty
AnalizarFalla ==
  /\ pc = "analizar"
  /\ Profile
  /\ reported' = Append(reported, "Error en el analisis")
  /\ resultados' = <<>>
  /\ pc' = "exportar"
  /\ UNCHANGED <<args, genes_input, locals, validacion, files, exit_status,
                 mygene_calls, returned_symbols, profile_returned>>

(* -------------------------- exportar_resultados ------------------------ *)
\* rows of validacion_genes.csv for the mapping
FilasValidas(m) ==
  [i \in 1..Len(m) |->
     [gen_input |-> m[i][1], gen_validado |-> m[i][2], estado |-> "valido",
      notas |-> IF m[i][1] # m[i][2] THEN "Convertido" ELSE "Validado"]]

\* rows of validacion_genes.csv for no_encontrados
FilasNoEncontradas(ne) ==
  [i \in 1..Len(ne) |->
     [gen_input |-> ne[i], gen_validado |-> "NA", estado |-> "no_encontrado",
      notas |-> "Gen no encontrado en MyGene.info"]]

\* variant: the rows of the other sources are selected
RECURSIVE FiltrarFuente_Otras(_, _)
FiltrarFuente_Otras(df, source) ==
  IF df = <<>> THEN <<>>
  ELSE IF Head(df).source # source
       THEN <<Head(df)>> \o FiltrarFuente_Otras(Tail(df), source)
       ELSE FiltrarFuente_Otras(Tail(df), source)

\* df[df['source'] == source]
RECURSIVE FiltrarFuente(_, _)
FiltrarFuente(df, source) ==
  IF df = <<>> THEN <<>>
  ELSE IF Head(df).source = source
       THEN <<Head(df)>> \o FiltrarFuente(Tail(df), source)
       ELSE FiltrarFuente(Tail(df), source)

\* bases_datos: source -> file name
bases_datos ==
  <<<<"GO:BP", "GO_BP_resultados.csv">>,
    <<"KEGG", "KEGG_resultados.csv">>,
    <<"REAC", "REAC_resultados.csv">>>>

\* the per-database files written for df, from entry i of bases_datos on
RECURSIVE ArchivosPorFuente(_, _, _)
ArchivosPorFuente(df, i, fs) ==
  IF i > Len(bases_datos) THEN fs
  ELSE LET df_source == FiltrarFuente(df, bases_datos[i][1])
       IN IF df_source # <<>>
          THEN ArchivosPorFuente(df, i + 1,
                                 Put(fs, bases_datos[i][2], df_source))
          ELSE ArchivosPorFuente(df, i + 1, fs)

\* variant: no early return on an empty result set
Exportados_SinRetorno(df, validacion_info) ==
  ArchivosPorFuente(df, 1,
    Put(Put(Put(<<>>, "validacion_genes.csv",
                FilasValidas(validacion_info.mapping)
                  \o FilasNoEncontradas(validacion_info.no_encontrados)),
            "resultados_completos.csv", df),
        "resultados_completos.xlsx", df))

\* the files exportar_resultados leaves in the output directory
Exportados(df, validacion_info) ==
  LET conValidacion ==
        Put(<<>>, "validacion_genes.csv",
            FilasValidas(validacion_info.mapping)
              \o FilasNoEncontradas(validacion_info.no_encontrados))
  IN IF df = <<>> THEN conValidacion
     ELSE ArchivosPorFuente(df, 1,
            Put(Put(conValidacion, "resultados_completos.csv", df),
                "resultados_completos.xlsx", df))

\* exportar_resultados, then main prints the completion banner
Exportar ==
  /\ pc = "exportar"
  /\ files' = Exportados(resultados, validacion)
  /\ pc' = "fin"
  /\ UNCHANGED <<args, genes_input, locals, validacion, resultados,
                 exit_status, reported, mygene_calls, gprofiler_calls,
                 returned_symbols, profile_returned>>

Next ==
  \/ GenesDeArgumentos
  \/ LeerGenes
  \/ LeerGenesNoEncontrado
  \/ LeerGenesError
  \/ PrimeraConsulta
  \/ PrimeraConsultaFalla
  \/ SegundaConsulta
  \/ SegundaConsultaFalla
  \/ Resumen
  \/ ResumenSinValidos
  \/ Analizar
  \/ AnalizarFalla
  \/ Exportar

Spec == Init /\ [][Next]_vars

\* the script is one sequential thread: a step that can be taken is taken
FairSpec == Spec /\ WF_vars(Next)

(* ======================= properties of the pipeline ===================== *)
\* validar_y_convertir_genes has returned its dict to main
Validado == pc \in {"analizar", "exportar", "fin"}
\* the first querymany call raised
PrimeraFallo == Len(mygene_calls) >= 1 /\ mygene_calls[1].raised
\* the second querymany call raised
SegundaFallo == Len(mygene_calls) >= 2 /\ mygene_calls[2].raised
\* the enrichment query has been issued
Enriquecido == pc \in {"exportar", "fin"}
\* the names of the files in the output directory
Escritos == Keys(files)

(* ---- C1 ---------------------------------------------------------------- *)
\* C1: whenever validar_y_convertir_genes returns, every input identifier
\* is a key of 'mapping' or an element of 'no_encontrados', never both and
\* never neither.
C1_Particion ==
  Validado =>
    \A g \in Range(genes_input) :
      (g \in Keys(validacion.mapping))
        # (g \in Range(validacion.no_encontrados))

(* ---- C2 ---------------------------------------------------------------- *)
\* C2 as stated: when the first querymany call raises, the condition is
\* reported and the process terminates without an enrichment query and
\* without an output file.
C2_TerminaSinServicio ==
  PrimeraFallo =>
    /\ "Error al conectar con MyGene.info" \in Range(reported)
    /\ gprofiler_calls = <<>>
    /\ files = <<>>

\* C2 amended: when the first querymany call raises, the condition is
\* reported and the run continues without validation: the input list is
\* returned unchanged as 'validos' with the identity mapping and an empty
\* 'no_encontrados', no second lookup is made, the enrichment query is
\* issued with the raw input list and the export stage writes the
\* validation file.
C2_ContinuaSinValidacion ==
  PrimeraFallo =>
    /\ "Error al conectar con MyGene.info" \in Range(reported)
    /\ exit_status = -1
    /\ Validado
    /\ Len(mygene_calls) = 1
    /\ validacion.validos = genes_input
    /\ Keys(validacion.mapping) = Range(genes_input)
    /\ \A g \in Range(genes_input) : Get(validacion.mapping, g) = g
    /\ validacion.no_encontrados = <<>>
    /\ validacion.advertencias = <<SinConexion>>
    /\ (Enriquecido =>
          /\ Len(gprofiler_calls) = 1
          /\ gprofiler_calls[1].query = genes_input)
    /\ (pc = "fin" => "validacion_genes.csv" \in Escritos)

\* the lookup service was unreachable and the run completed with the raw list
C2_Witness ==
  /\ PrimeraFallo
  /\ pc = "fin"
  /\ Len(genes_input) = MaxGenes
  /\ gprofiler_calls[1].query = genes_input

(* ---- C3 ---------------------------------------------------------------- *)
\* C3, for the runs whose first lookup call returned (the run in which it
\* raises is the subject of C2): when the enrichment stage is reached the
\* submitted list is the validated gene set, each submitted element is a
\* symbol the lookup service returned, and every input identifier left
\* unresolved after the two passes (no key of 'mapping') is recorded in
\* 'no_encontrados'.
C3_ListaValidada ==
  (Enriquecido /\ ~PrimeraFallo) =>
    /\ gprofiler_calls[1].query = validacion.validos
    /\ Range(gprofiler_calls[1].query) \subseteq returned_symbols
    /\ \A g \in Range(genes_input) :
         g \notin Keys(validacion.mapping) =>
           g \in Range(validacion.no_encontrados)

(* ---- C4 ---------------------------------------------------------------- *)
\* C4 as stated: the process continues past validation exactly when at
\* least one identifier resolves; with none resolved it exits with an error
\* status, issues no enrichment query and writes no file.
C4_ContinuaSiResuelve ==
  /\ Validado => returned_symbols # {} /\ validacion.validos # <<>>
  /\ (pc = "exit" /\ mygene_calls # <<>>) =>
       exit_status = 1 /\ gprofiler_calls = <<>> /\ files = <<>>

\* C4 amended: provided the first lookup call does not raise, the process
\* continues past validation exactly when at least one identifier resolves:
\* then it goes on to the enrichment query and to export and eventually
\* completes, even when other identifiers are unresolved; with none
\* resolved it exits with status 1, issues no enrichment query and writes
\* no file. When the first lookup call raises, the run continues to
\* enrichment and export whatever the input.
C4_ContinuaSiResuelveOSinServicio ==
  /\ [](Validado /\ ~PrimeraFallo =>
          /\ validacion.validos # <<>>
          /\ Range(validacion.validos) \subseteq returned_symbols)
  /\ []((pc = "exit" /\ mygene_calls # <<>>) =>
          /\ ~PrimeraFallo
          /\ "No se encontro ningun gen valido" \in Range(reported)
          /\ exit_status = 1
          /\ gprofiler_calls = <<>>
          /\ files = <<>>)
  /\ [][(pc = "resumen" /\ genes_validos = <<>>) => pc' = "exit"]_vars
  /\ [][(pc = "resumen" /\ genes_validos # <<>>) => pc' = "analizar"]_vars
  /\ (((pc = "resumen" /\ genes_validos # <<>>) \/ PrimeraFallo) ~>
        (pc = "fin" /\ Len(gprofiler_calls) = 1
           /\ "validacion_genes.csv" \in Escritos))

\* a run completed with one identifier resolved and another not
C4_Witness ==
  /\ pc = "fin"
  /\ ~PrimeraFallo
  /\ validacion.validos # <<>>
  /\ validacion.no_encontrados # <<>>
  /\ Len(gprofiler_calls) = 1

(* ---- C5 ---------------------------------------------------------------- *)
TodosLosArchivos ==
  {"validacion_genes.csv", "resultados_completos.csv",
   "resultados_completos.xlsx", "GO_BP_resultados.csv",
   "KEGG_resultados.csv", "REAC_resultados.csv"}

\* C5 as stated: every run that reaches the export stage leaves all six
\* files in the output directory.
C5_TodosLosArchivos == pc = "fin" => TodosLosArchivos \subseteq Escritos

\* C5 amended: every run that reaches the export stage writes the
\* validation CSV; the combined CSV and spreadsheet are written exactly when
\* the result set is non-empty, and the CSV of a source database exactly
\* when the result set holds a row of that source; nothing else is written.
C5_ArchivosSegunResultados ==
  pc = "fin" =>
    /\ "validacion_genes.csv" \in Escritos
    /\ "resultados_completos.csv" \in Escritos <=> resultados # <<>>
    /\ "resultados_completos.xlsx" \in Escritos <=> resultados # <<>>
    /\ \A i \in 1..Len(bases_datos) :
         bases_datos[i][2] \in Escritos <=>
           \E k \in 1..Len(resultados) :
              resultados[k].source = bases_datos[i][1]
    /\ Escritos \subseteq TodosLosArchivos

\* export ran on a non-empty result set without KEGG rows
C5_Witness ==
  /\ pc = "fin"
  /\ resultados # <<>>
  /\ "GO_BP_resultados.csv" \in Escritos
  /\ "KEGG_resultados.csv" \notin Escritos

(* ---- C6 ---------------------------------------------------------------- *)
\* C6: when the result set is non-empty, the combined file holds exactly the
\* rows the enrichment service returned, in the same order, and each
\* per-database file written holds exactly the rows of that result set
\* whose source is that database.
C6_FilasSinModificar ==
  (pc = "fin" /\ profile_returned # <<>>) =>
    /\ "resultados_completos.csv" \in Escritos
    /\ Get(files, "resultados_completos.csv") = profile_returned
    /\ Get(files, "resultados_completos.xlsx") = profile_returned
    /\ \A i \in 1..Len(bases_datos) :
         bases_datos[i][2] \in Escritos =>
           Get(files, bases_datos[i][2]) =
             SelectSeq(profile_returned,
                       LAMBDA row : row.source = bases_datos[i][1])

\* export ran on rows of two different databases
C6_Witness ==
  /\ pc = "fin"
  /\ Len(profile_returned) = MaxRows
  /\ profile_returned[1].source = "KEGG"
  /\ profile_returned[2].source = "GO:BP"
  /\ "KEGG_resultados.csv" \in Escritos

(* ---- C7 ---------------------------------------------------------------- *)
\* C7: when the file given with -i does not exist, the process reports it
\* and exits with status 1 before any later stage: no lookup query, no
\* enrichment query and no output file.
C7_ArchivoInexistente ==
  args.input = "missing.txt" =>
    /\ mygene_calls = <<>>
    /\ gprofiler_calls = <<>>
    /\ files = <<>>
    /\ pc \in {"obtener", "exit"}
    /\ (pc = "exit" =>
          exit_status = 1 /\ reported = <<"Archivo no encontrado">>)

\* the run with the missing file has ended
C7_Witness == args.input = "missing.txt" /\ pc = "exit"

(* ---- C8 ---------------------------------------------------------------- *)
\* positions of the first pass whose result was reported not found or came
\* without a symbol
Pendientes ==
  {i \in 1..Min(Len(genes_input), Len(results)) :
     results[i].notfound = "True" \/ results[i].symbol = Absent}
\* the k-th smallest element of a set of numbers
Enesimo(S, k) == CHOOSE i \in S : Cardinality({j \in S : j < i}) = k - 1
\* positions of the retry list resolved by the second pass
ResueltosMT ==
  {k \in 1..Min(Len(genes_a_reintentar), Len(results_mt)) :
     results_mt[k].notfound = Absent /\ results_mt[k].symbol # Absent}
Maximo(S) == CHOOSE i \in S : \A j \in S : j <= i

C9_FalloDelReintento ==
  [][/\ (pc = "reintentar" /\ Len(mygene_calls') = 2
            /\ mygene_calls'[2].raised) =>
          /\ pc' = "resumen"
          /\ exit_status' = -1
          /\ no_encontrados' = genes_a_reintentar
          /\ Len(advertencias') = Len(genes_a_reintentar)
          /\ \A k \in 1..Len(genes_a_reintentar) :
               advertencias'[k] = Advertencia(genes_a_reintentar[k])
          /\ genes_validos' = genes_validos
          /\ mapping' = mapping
     /\ (pc = "resumen" /\ SegundaFallo /\ genes_validos # <<>>) =>
          /\ pc' = "analizar"
          /\ validacion'.validos = genes_validos
          /\ validacion'.mapping = mapping
          /\ validacion'.no_encontrados = genes_a_reintentar
    ]_vars

\* the retry failed after the first pass had resolved an identifier
C9_Witness ==
  /\ pc = "analizar"
  /\ SegundaFallo
  /\ validacion.validos # <<>>
  /\ validacion.no_encontrados # <<>>
  /\ Len(validacion.advertencias) = Len(validacion.no_encontrados)

(* ---- C10 --------------------------------------------------------------- *)
\* the organism a species name or organism code stands for; a code that
\* species_map does not list stands for an organism of its own
Organismo(code) ==
  IF Lower(code) \in DOMAIN species_map THEN species_map[Lower(code)]
  ELSE Lower(code)

\* C10: for every value of the organism option, the lookup and the
\* enrichment query of one run are made for the same organism.
C10_MismaEspecie ==
  Enriquecido =>
    Organismo(mygene_calls[1].species) = Organismo(gprofiler_calls[1].organism)
====
